---- MODULE Spec2Model ----
(***************************************************************************)
(* A model of allantools.py: the tau selection (tau_m), the result filter  *)
(* (remove_small_ns), the nine phase-domain estimators and the             *)
(* three-cornered-hat combination.                                         *)
(*                                                                         *)
(* Numbers.  tau_m works on numpy float64 values: the tau list, the bound  *)
(* (1/float(rate))*float(len(data)), the products taus*rate and the        *)
(* quotients m/float(rate) are modelled as IEEE-754 binary64 values with   *)
(* round-to-nearest-even, bit for bit (a 53-bit significand kept in three  *)
(* limbs).  Phase samples are integers, which float64 holds and adds       *)
(* exactly; a deviation is kept as the exact rational value of its square. *)
(***************************************************************************)
EXTENDS Integers, Sequences, FiniteSets, TLC

(***************************************************************************)
(* Generic helpers                                                         *)
(***************************************************************************)
Min2(a, b) == IF a <= b THEN a ELSE b

Max2(a, b) == IF a >= b THEN a ELSE b

Abs(a) == IF a < 0 THEN -a ELSE a

RECURSIVE Gcd(_, _)
Gcd(a, b) == IF b = 0 THEN a ELSE Gcd(b, a % b)

RECURSIVE SumSeq(_)
SumSeq(s) == IF s = <<>> THEN 0 ELSE Head(s) + SumSeq(Tail(s))

\* np.sum(v * v)
SumSq(s) == SumSeq([i \in 1..Len(s) |-> s[i] * s[i]])

\* ceil(a / b) for a >= 0, b > 0
CeilDiv(a, b) == (a + b - 1) \div b

\* F(v), with v computed once (a local variable of the code)
With(v, F(_)) == CHOOSE y \in {F(x) : x \in {v}} : TRUE

(***************************************************************************)
(* IEEE-754 binary64.  A value is sgn * (hi*2^36 + mid*2^18 + lo)          *)
(* * 2^(ex-52) with 2^16 <= hi < 2^17 and 0 <= mid, lo < 2^18, or zero.    *)
(***************************************************************************)
Limb == 2^18

HiOne == 2^16

FlZero == [sgn |-> 0, ex |-> 0, hi |-> 0, mid |-> 0, lo |-> 0]

FlNeg(x) == [x EXCEPT !.sgn = -x.sgn]

\* the significand plus one unit in the last place, carried through the limbs
FlBump(x) ==
    IF x.lo + 1 < Limb THEN [x EXCEPT !.lo = x.lo + 1]
    ELSE IF x.mid + 1 < Limb THEN [x EXCEPT !.lo = 0, !.mid = x.mid + 1]
    ELSE IF x.hi + 1 < 2 * HiOne THEN [x EXCEPT !.lo = 0, !.mid = 0, !.hi = x.hi + 1]
    ELSE [x EXCEPT !.lo = 0, !.mid = 0, !.hi = HiOne, !.ex = x.ex + 1]

\* round to nearest, ties to even: rem dropped below the last place, out of unit
FlRound(x, rem, unit) ==
    IF 2 * rem > unit \/ (2 * rem = unit /\ x.lo % 2 = 1) THEN FlBump(x) ELSE x

\* the exponent e >= 0 with q*2^e <= p < q*2^(e+1), for p >= q
RECURSIVE ExpUp(_, _)
ExpUp(p, q) == IF 2 * q <= p THEN 1 + ExpUp(p, 2 * q) ELSE 0

\* the least k > 0 with p*2^k >= q, for p < q
RECURSIVE ExpDown(_, _)
ExpDown(p, q) == IF 2 * p >= q THEN 1 ELSE 1 + ExpDown(2 * p, q)

\* p / q for integers p, q >= 1 (both exact in binary64), correctly rounded
FlDiv(p, q) ==
    LET e  == IF p >= q THEN ExpUp(p, q) ELSE -ExpDown(p, q)
        P  == IF e < 0 THEN p * 2^(-e) ELSE p
        Q  == IF e > 0 THEN q * 2^e ELSE q
        t1 == (P - Q) * HiOne
        t2 == (t1 % Q) * Limb
        t3 == (t2 % Q) * Limb
    IN  FlRound([sgn |-> 1, ex |-> e, hi |-> HiOne + (t1 \div Q),
                 mid |-> t2 \div Q, lo |-> t3 \div Q], t3 % Q, Q)

\* the number of bits by which a exceeds the 17 bits of the top limb
RECURSIVE Excess(_)
Excess(a) == IF a < 2 * HiOne THEN 0 ELSE 1 + Excess(a \div 2)

\* x * float(k) for a binary64 x > 0 and an integer k >= 1, correctly rounded
FlMulInt(x, k) ==
    LET a0 == x.lo * k
        a1 == x.mid * k + (a0 \div Limb)
        a2 == x.hi * k + (a1 \div Limb)
        l0 == a0 % Limb
        l1 == a1 % Limb
        s  == Excess(a2)
        d  == 2^s
        u  == Limb \div d
    IN  FlRound([sgn |-> 1, ex |-> x.ex + s, hi |-> a2 \div d,
                 mid |-> (a2 % d) * u + (l1 \div d),
                 lo |-> (l1 % d) * u + (l0 \div d)], l0 % d, d)

\* x < y
FlLt(x, y) ==
    IF x.sgn # y.sgn THEN x.sgn < y.sgn
    ELSE IF x.sgn = 0 THEN FALSE
    ELSE LET below == \/ x.ex < y.ex
                      \/ x.ex = y.ex /\ x.hi < y.hi
                      \/ x.ex = y.ex /\ x.hi = y.hi /\ x.mid < y.mid
                      \/ x.ex = y.ex /\ x.hi = y.hi /\ x.mid = y.mid /\ x.lo < y.lo
         IN  IF x.sgn = 1 THEN below ELSE (x # y /\ ~below)

\* np.floor(x) as an integer, for 0 <= x < 2^17
FlFloor(x) ==
    IF x.sgn = 0 \/ x.ex < 0 THEN 0 ELSE x.hi \div 2^(16 - x.ex)

(***************************************************************************)
(* Python and numpy helpers                                                *)
(***************************************************************************)
\* a slice bound as Python normalises it for a sequence of length n
PyIndex(i, n) == IF i < 0 THEN Max2(i + n, 0) ELSE Min2(i, n)

\* len(x[a::step]) (a is 0-based)
SliceLen(n, a, step) == CeilDiv(n - PyIndex(a, n), step)

\* x[a::step][k] for 0 <= k < SliceLen (TLA+ sequences are 1-based)
SliceAt(x, a, step, k) == x[PyIndex(a, Len(x)) + k * step + 1]

\* x[a:b]
SliceTo(x, a, b) ==
    LET lo == PyIndex(a, Len(x))
        hi == PyIndex(b, Len(x))
    IN  [k \in 1..Max2(hi - lo, 0) |-> x[lo + k]]

\* x[::-1]
Reverse(x) == [k \in 1..Len(x) |-> x[Len(x) + 1 - k]]

\* x[mask]
SelectIdx(x, keep) == SelectSeq([i \in 1..Len(x) |-> <<i, x[i]>>], LAMBDA p : p[1] \in keep)

Masked(x, keep) == LET s == SelectIdx(x, keep) IN [i \in 1..Len(s) |-> s[i][2]]

RECURSIVE SortedSeq(_)
SortedSeq(S) ==
    IF S = {} THEN <<>>
    ELSE LET lo == CHOOSE a \in S : \A b \in S : a <= b
         IN  <<lo>> \o SortedSeq(S \ {lo})

\* np.unique(m): the distinct values of m, ascending
Unique(m) == SortedSeq({m[i] : i \in 1..Len(m)})

(***************************************************************************)
(* tau_m: pre-processing of the tau list.  data is the phase series, rate  *)
(* a non-negative integer, taus a sequence of binary64 values.             *)
(***************************************************************************)
tau_m(data, rate, taus) ==
    IF rate = 0
    THEN [err |-> "RuntimeError", m |-> <<>>, taus2 |-> <<>>]
    ELSE LET bound == FlMulInt(FlDiv(1, rate), Len(data))
             valid == {i \in 1..Len(taus) :
                          FlLt(taus[i], bound) /\ FlLt(FlZero, taus[i])}
             tv    == Masked(taus, valid)
             fl    == [i \in 1..Len(tv) |-> FlFloor(FlMulInt(tv[i], rate))]
             nz    == SelectSeq(fl, LAMBDA v : v # 0)
         IN  With(Unique(nz), LAMBDA m :
                 [err |-> "none", m |-> m,
                  taus2 |-> [i \in 1..Len(m) |-> FlDiv(m[i], rate)]])

(***************************************************************************)
(* Values.  A rational is [nan, num, den] in lowest terms with den > 0; a  *)
(* deviation (a float that is >= 0, or NaN) is held as the rational value  *)
(* of its square, so that np.sqrt and dev * dev are exact.                 *)
(***************************************************************************)
NaN == [nan |-> TRUE, num |-> 0, den |-> 1]

\* n / d; numpy gives nan for 0.0 / 0.0 (the only division by zero that occurs)
Rat(n, d) ==
    IF d = 0 THEN NaN
    ELSE LET g == Gcd(Abs(n), Abs(d))
             t == IF d < 0 THEN -1 ELSE 1
         IN  [nan |-> FALSE, num |-> t * (n \div g), den |-> t * (d \div g)]

RatAdd(a, b) ==
    IF a.nan \/ b.nan THEN NaN ELSE Rat(a.num * b.den + b.num * a.den, a.den * b.den)

RatSub(a, b) ==
    IF a.nan \/ b.nan THEN NaN ELSE Rat(a.num * b.den - b.num * a.den, a.den * b.den)

RatScale(a, n, d) == IF a.nan THEN NaN ELSE Rat(a.num * n, a.den * d)

\* np.sqrt(v): the deviation whose square is v; nan (and a warning) for v < 0
Sqrt(v) == IF v.nan \/ v.num < 0 THEN NaN ELSE v

\* dev * dev
Square(dev) == dev

\* dev / np.sqrt(n)
DivSqrt(dev, n) == IF dev.nan \/ n = 0 THEN NaN ELSE Rat(dev.num, dev.den * n)

(***************************************************************************)
(* remove_small_ns: if n is small (== 1), reject the result.  rows is the  *)
(* sequence of (tau, dev, deverr, n) entries, one per selected m.          *)
(***************************************************************************)
\* a filter that keeps n == 1
ns_at_least_one(n) == n >= 1

ns_big_enough(n) == n > 1

remove_small_ns(taus, devs, deverrs, ns) ==
    LET keep == {i \in 1..Len(ns) : ns_big_enough(ns[i])}
    IN  [taus |-> Masked(taus, keep), devs |-> Masked(devs, keep),
         errs |-> Masked(deverrs, keep), ns |-> Masked(ns, keep)]

NoOut == [taus |-> <<>>, devs |-> <<>>, errs |-> <<>>, ns |-> <<>>]

\* what a call leaves behind: err is "none" or the exception that ended it, sel
\* the tau selection, raw the per-m intermediate values, ext the extended series
\* (totdev only), out the returned arrays
Raised(e) == [err |-> e, sel |-> [m |-> <<>>, taus2 |-> <<>>], raw |-> <<>>,
              ext |-> <<>>, out |-> NoOut]

Returned(sel, rows, ext) ==
    With(rows, LAMBDA raw :
        [err |-> "none", sel |-> [m |-> sel.m, taus2 |-> sel.taus2], raw |-> raw,
         ext |-> ext,
         out |-> remove_small_ns(sel.taus2,
                                 [i \in 1..Len(raw) |-> raw[i].dev],
                                 [i \in 1..Len(raw) |-> raw[i].deverr],
                                 [i \in 1..Len(raw) |-> raw[i].n])])

\* one raw entry; s is the sum of squares before normalisation, terms the number
\* of squared terms in it, first the (raw) start of the lowest slice read
Entry(m, n, s, terms, first, dev, deverr) ==
    [m |-> m, n |-> n, s |-> s, terms |-> terms, first |-> first,
     dev |-> dev, deverr |-> deverr]

(***************************************************************************)
(* calc_adev_phase / adev_phase / oadev_phase                              *)
(***************************************************************************)
\* the substitution taking the length of the series instead of 1
SmallN_len(n, data) == IF n = 0 THEN Len(data) ELSE n

\* n = 1 when the slices are empty
SmallN(n, data) == IF n = 0 THEN 1 ELSE n

\* a second difference with the factor 2 lost
first_minus_mid(x2, x1, x0) == x2 - x1 + x0

\* d2 - 2 * d1 + d0
second_difference(x2, x1, x0) == x2 - 2 * x1 + x0

calc_adev_phase(data, rate, mj, stride) ==
    LET N  == Len(data)
        n0 == Min2(SliceLen(N, 0, stride),
                   Min2(SliceLen(N, mj, stride), SliceLen(N, 2 * mj, stride)))
        n  == SmallN(n0, data)
        v  == [k \in 1..n0 |-> second_difference(SliceAt(data, 2 * mj, stride, k - 1),
                                                 SliceAt(data, mj, stride, k - 1),
                                                 SliceAt(data, 0, stride, k - 1))]
    IN  With(SumSq(v), LAMBDA s :
        With(Sqrt(Rat(s * rate * rate, 2 * n * mj * mj)), LAMBDA dev :
            Entry(mj, n, s, n0, 0, dev, DivSqrt(dev, n))))

adev_phase(data, rate, taus) ==
    With(tau_m(data, rate, taus), LAMBDA sel :
        IF sel.err # "none" THEN Raised(sel.err)
        ELSE Returned(sel, [i \in 1..Len(sel.m) |->
                               calc_adev_phase(data, rate, sel.m[i], sel.m[i])], <<>>))

oadev_phase(data, rate, taus) ==
    With(tau_m(data, rate, taus), LAMBDA sel :
        IF sel.err # "none" THEN Raised(sel.err)
        ELSE Returned(sel, [i \in 1..Len(sel.m) |->
                               calc_adev_phase(data, rate, sel.m[i], 1)], <<>>))

(***************************************************************************)
(* calc_hdev_phase / hdev_phase / ohdev_phase                              *)
(***************************************************************************)
calc_hdev_phase(data, rate, mj, stride) ==
    LET N  == Len(data)
        n0 == Min2(Min2(SliceLen(N, 0, stride), SliceLen(N, mj, stride)),
                   Min2(SliceLen(N, 2 * mj, stride), SliceLen(N, 3 * mj, stride)))
        v  == [k \in 1..n0 |-> SliceAt(data, 3 * mj, stride, k - 1)
                               - 3 * SliceAt(data, 2 * mj, stride, k - 1)
                               + 3 * SliceAt(data, mj, stride, k - 1)
                               - SliceAt(data, 0, stride, k - 1)]
        n  == IF n0 = 0 THEN 1 ELSE n0
    IN  With(SumSq(v), LAMBDA s :
        With(Sqrt(Rat(s * rate * rate, 6 * n * mj * mj)), LAMBDA h :
            Entry(mj, n, s, n0, 0, h, DivSqrt(h, n))))

hdev_phase(data, rate, taus) ==
    With(tau_m(data, rate, taus), LAMBDA sel :
        IF sel.err # "none" THEN Raised(sel.err)
        ELSE Returned(sel, [i \in 1..Len(sel.m) |->
                               calc_hdev_phase(data, rate, sel.m[i], sel.m[i])], <<>>))

ohdev_phase(data, rate, taus) ==
    With(tau_m(data, rate, taus), LAMBDA sel :
        IF sel.err # "none" THEN Raised(sel.err)
        ELSE Returned(sel, [i \in 1..Len(sel.m) |->
                               calc_hdev_phase(data, rate, sel.m[i], 1)], <<>>))

(***************************************************************************)
(* mdev_phase / tdev_phase                                                 *)
(***************************************************************************)
\* np.cumsum(v)
CumSum(v) == [k \in 1..Len(v) |-> SumSeq(SubSeq(v, 1, k))]

\* the first loop sum: the window sum over data[0:m], data[m:2m], data[2m:3m]
mdev_first(data, m) ==
    LET d0 == SliceTo(data, 0, m)
        d1 == SliceTo(data, m, 2 * m)
        d2 == SliceTo(data, 2 * m, 3 * m)
        e  == Min2(Len(d0), Min2(Len(d1), Len(d2)))
    IN  SumSeq([k \in 1..e |-> d2[k] - 2 * d1[k] + d0[k]])

\* the running sums without the first window sum they start from
mdev_v_arr_unseeded(data, m, v) ==
    LET N  == Len(data)
        e  == Max2(N - 3 * m, 0)
    IN  CumSum([k \in 1..e |-> data[3 * m + k] - 3 * data[2 * m + k]
                               + 3 * data[m + k] - data[k]])

\* the second part of the sum: v plus the cumulative sum of the 4-term difference
mdev_v_arr(data, m, v) ==
    LET N  == Len(data)
        d3 == SliceTo(data, 3 * m, N)
        d2 == SliceTo(data, 2 * m, N)
        d1 == SliceTo(data, m, N)
        d0 == SliceTo(data, 0, N)
        e  == Min2(Min2(Len(d0), Len(d1)), Min2(Len(d2), Len(d3)))
        c  == CumSum([k \in 1..e |-> d3[k] - 3 * d2[k] + 3 * d1[k] - d0[k]])
    IN  [k \in 1..e |-> v + c[k]]

mdev_calc(data, rate, m) ==
    With(mdev_first(data, m), LAMBDA v :
    With(mdev_v_arr(data, m, v), LAMBDA v_arr :
    With(v * v + SumSq(v_arr), LAMBDA s :
    With(Sqrt(Rat(s * rate * rate, 2 * m * m * m * m * (Len(v_arr) + 1))), LAMBDA dev :
        Entry(m, Len(v_arr) + 1, s, Len(v_arr) + 1, 0, dev,
              DivSqrt(dev, Len(v_arr) + 1))))))

mdev_phase(data, rate, taus) ==
    With(tau_m(data, rate, taus), LAMBDA sel :
        IF sel.err # "none" THEN Raised(sel.err)
        ELSE Returned(sel, [i \in 1..Len(sel.m) |-> mdev_calc(data, rate, sel.m[i])], <<>>))

\* the averaging factor behind a returned tau (taus2 = m / rate)
FactorOf(sel, tau) == sel.m[CHOOSE j \in 1..Len(sel.m) : sel.taus2[j] = tau]

\* td = taus2 * md / np.sqrt(3.0)
tdev_td(md, m, rate) == RatScale(md, m * m, 3 * rate * rate)

tdev_phase(phase, rate, taus) ==
    With(mdev_phase(phase, rate, taus), LAMBDA r :
    With([i \in 1..Len(r.out.taus) |->
             tdev_td(r.out.devs[i], FactorOf(r.sel, r.out.taus[i]), rate)], LAMBDA td :
        IF r.err # "none" THEN r
        ELSE [err |-> r.err, sel |-> r.sel, raw |-> r.raw, ext |-> r.ext,
              out |-> [taus |-> r.out.taus, devs |-> td,
                       errs |-> [i \in 1..Len(td) |-> DivSqrt(td[i], r.out.ns[i])],
                       ns |-> r.out.ns]]))

(***************************************************************************)
(* totdev_phase                                                            *)
(***************************************************************************)
\* x[a:b] = v on a copy of x (the slice and v have the same length)
SetSlice(x, a, b, v) ==
    LET lo == PyIndex(a, Len(x))
        hi == PyIndex(b, Len(x))
    IN  [k \in 1..Len(x) |-> IF lo < k /\ k <= hi THEN v[k - lo] ELSE x[k]]

\* the new dataset with reflected data before and after the original
totdev_x(data) ==
    LET n  == Len(data)
        in == SliceTo(data, 1, -1)
        x1 == Reverse([k \in 1..n - 2 |-> 2 * data[1] - in[k]])
        rv == Reverse(in)
        x2 == [k \in 1..n - 2 |-> 2 * data[n] - rv[k]]
        z  == [k \in 1..3 * n - 4 |-> 0]
    IN  SetSlice(SetSlice(SetSlice(z, 0, n - 2, x1), n - 2, 2 * (n - 2) + 2, data),
                 2 * (n - 2) + 2, 3 * n - 4, x2)

\* the raw start of the slice d1n = x[mid - mj + 1:]
totdev_d1n_start(mid, mj) == mid - mj + 1

totdev_calc(x, n, rate, mid, mj) ==
    LET L   == Len(x)
        a0  == mid + 1
        a1  == mid + mj + 1
        a1n == totdev_d1n_start(mid, mj)
        e   == Min2(SliceLen(L, a0, 1), Min2(SliceLen(L, a1, 1), SliceLen(L, a1n, 1)))
        t   == Min2(e, mid)
        v   == [k \in 1..t |-> SliceAt(x, a1n, 1, k - 1) - 2 * SliceAt(x, a0, 1, k - 1)
                               + SliceAt(x, a1, 1, k - 1)]
    IN  With(SumSq(v), LAMBDA s :
        With(Sqrt(Rat(s * rate * rate, 2 * mj * mj * (n - 2))), LAMBDA dev :
            Entry(mj, mid, s, t, a1n, dev, DivSqrt(dev, mid))))

totdev_phase(data, rate, taus) ==
    LET n   == Len(data)
        mid == n - 2
    IN  With(tau_m(data, rate, taus), LAMBDA sel :
            IF sel.err # "none" THEN Raised(sel.err)
            ELSE IF n - 2 < 0 THEN Raised("ValueError")   \* np.ones((n - 2,))
            ELSE With(totdev_x(data), LAMBDA x :
                     Returned(sel, [i \in 1..Len(sel.m) |->
                                       totdev_calc(x, n, rate, mid, sel.m[i])], x)))

(***************************************************************************)
(* tierms_phase / mtie_phase                                               *)
(***************************************************************************)
tierms_calc(phase, mj) ==
    LET count  == Len(phase)
        a      == SliceTo(phase, 0, -mj)
        b      == SliceTo(phase, mj, count)
        rows   == Min2(Len(a), Len(b))
        phases == [k \in 1..rows |-> Max2(a[k], b[k]) - Min2(a[k], b[k])]
        ncount == count - mj
    IN  With(SumSq(phases), LAMBDA s :
            \* np.mean of nothing is nan
            Entry(mj, ncount, s, rows, 0, Sqrt(Rat(s, rows)), DivSqrt(Rat(0, 1), ncount)))

tierms_phase(phase, rate, taus) ==
    With(tau_m(phase, rate, taus), LAMBDA sel :
        IF sel.err # "none" THEN Raised(sel.err)
        ELSE Returned(sel, [i \in 1..Len(sel.m) |-> tierms_calc(phase, sel.m[i])], <<>>))

SeqMax(s) == CHOOSE a \in {s[i] : i \in 1..Len(s)} : \A i \in 1..Len(s) : s[i] <= a

SeqMin(s) == CHOOSE a \in {s[i] : i \in 1..Len(s)} : \A i \in 1..Len(s) : a <= s[i]

\* bn.move_nanmax - bn.move_nanmin: the range of every full window of win_size
move_range(phase, win_size) ==
    [k \in 1..Max2(Len(phase) - win_size + 1, 0) |->
        SeqMax(SubSeq(phase, k, k + win_size - 1))
        - SeqMin(SubSeq(phase, k, k + win_size - 1))]

\* np.nanmax(tie), squared; nan when no window is full
mtie_dev(tie) == IF tie = <<>> THEN NaN ELSE Rat(SeqMax(tie) * SeqMax(tie), 1)

mtie_calc(phase, mj) ==
    LET win_size == mj + 1
        ncount   == Len(phase) - mj
    IN  With(move_range(phase, win_size), LAMBDA tie :
        With(mtie_dev(tie), LAMBDA dev :
            Entry(mj, ncount, IF tie = <<>> THEN 0 ELSE SeqMax(tie), Len(tie), 0,
                  dev, DivSqrt(dev, ncount))))

\* strict: whether the moving-window routine of the bottleneck library, which is
\* not part of the repository, rejects a window longer than the series
mtie_phase(phase, rate, taus, strict) ==
    With(tau_m(phase, rate, taus), LAMBDA sel :
        IF sel.err # "none" THEN Raised(sel.err)
        ELSE IF strict /\ \E i \in 1..Len(sel.m) : sel.m[i] + 1 > Len(phase)
             THEN Raised("ValueError")
        ELSE Returned(sel, [i \in 1..Len(sel.m) |-> mtie_calc(phase, sel.m[i])], <<>>))

(***************************************************************************)
(* three_cornered_hat_phase                                                *)
(***************************************************************************)
Estimators == {"adev_phase", "oadev_phase", "mdev_phase", "tdev_phase", "hdev_phase",
               "ohdev_phase", "totdev_phase", "tierms_phase", "mtie_phase"}

\* function(phasedata, rate, taus)
Apply(function, data, rate, taus, strict) ==
    CASE function = "adev_phase"   -> adev_phase(data, rate, taus)
      [] function = "oadev_phase"  -> oadev_phase(data, rate, taus)
      [] function = "mdev_phase"   -> mdev_phase(data, rate, taus)
      [] function = "tdev_phase"   -> tdev_phase(data, rate, taus)
      [] function = "hdev_phase"   -> hdev_phase(data, rate, taus)
      [] function = "ohdev_phase"  -> ohdev_phase(data, rate, taus)
      [] function = "totdev_phase" -> totdev_phase(data, rate, taus)
      [] function = "tierms_phase" -> tierms_phase(data, rate, taus)
      [] function = "mtie_phase"   -> mtie_phase(data, rate, taus, strict)

\* an assertion that leaves the third leg out
hat_assert_two(var_ab, var_bc, var_ca) == Len(var_ab) = Len(var_bc)

\* assert len(var_ab) == len(var_bc) == len(var_ca)
hat_assert(var_ab, var_bc, var_ca) ==
    Len(var_ab) = Len(var_bc) /\ Len(var_bc) = Len(var_ca)

\* var_a = 0.5 * (var_ab + var_ca - var_bc), elementwise on equally long arrays
hat_var_a(var_ab, var_bc, var_ca) ==
    [i \in 1..Len(var_ab) |-> RatScale(RatSub(RatAdd(var_ab[i], var_ca[i]), var_bc[i]), 1, 2)]

\* the square roots as np.sqrt left them
hat_unclamped(dev_a, var_a) == dev_a

\* dev_a[var_a < 0] = 0
hat_clamp(dev_a, var_a) ==
    [i \in 1..Len(dev_a) |->
        IF ~var_a[i].nan /\ var_a[i].num < 0 THEN Rat(0, 1) ELSE dev_a[i]]

\* legs: how many of the three estimator calls returned; outs: what they returned
HatResult(e, legs, outs, var_a, tau, dev_a) ==
    [err |-> e, legs |-> legs, outs |-> outs, var_a |-> var_a, tau |-> tau, dev_a |-> dev_a]

NoHat == HatResult("none", 0, <<>>, <<>>, <<>>, <<>>)

\* var = dev * dev
hat_var(dev) == [i \in 1..Len(dev) |-> Square(dev[i])]

\* the part after the three estimator calls
hat_combine(ab, bc, ca) ==
    With(hat_var(ab.devs), LAMBDA var_ab :
    With(hat_var(bc.devs), LAMBDA var_bc :
    With(hat_var(ca.devs), LAMBDA var_ca :
        IF ~hat_assert(var_ab, var_bc, var_ca)
        THEN HatResult("AssertionError", 3, <<ab, bc, ca>>, <<>>, <<>>, <<>>)
        \* numpy cannot add arrays of different lengths
        ELSE IF Len(var_ab) # Len(var_bc) \/ Len(var_ab) # Len(var_ca)
        THEN HatResult("ValueError", 3, <<ab, bc, ca>>, <<>>, <<>>, <<>>)
        ELSE With(hat_var_a(var_ab, var_bc, var_ca), LAMBDA var_a :
                 HatResult("none", 3, <<ab, bc, ca>>, var_a, ab.taus,
                           hat_clamp([i \in 1..Len(var_a) |-> Sqrt(var_a[i])], var_a))))))

three_cornered_hat_phase(phasedata_ab, phasedata_bc, phasedata_ca, rate, taus, function, strict) ==
    With(Apply(function, phasedata_ab, rate, taus, strict), LAMBDA ab :
    With(Apply(function, phasedata_bc, rate, taus, strict), LAMBDA bc :
    With(Apply(function, phasedata_ca, rate, taus, strict), LAMBDA ca :
        IF ab.err # "none" THEN HatResult(ab.err, 0, <<>>, <<>>, <<>>, <<>>)
        ELSE IF bc.err # "none" THEN HatResult(bc.err, 1, <<ab.out>>, <<>>, <<>>, <<>>)
        ELSE IF ca.err # "none"
             THEN HatResult(ca.err, 2, <<ab.out, bc.out>>, <<>>, <<>>, <<>>)
        ELSE hat_combine(ab.out, bc.out, ca.out))))

(***************************************************************************)
(* Bounds of the model and the inputs drawn within them                    *)
(***************************************************************************)
\* estimator calls: series length, sample rate, tau grid k/q for k <= MaxTauNum
MaxN == 10

MaxRate == 5

MaxTauNum == 6

MaxTauDen == 5

\* tau selection alone: a wider range of lengths, rates and taus
MaxSelN == 16

MaxSelRate == 11

MaxSelTauNum == 7

\* three-cornered hat: the three series and the tau list
MaxHatN == 5

MaxHatRate == 1

MaxHatTau == 2

\* the series a + b*i (i = 0..n-1) with h added to sample k (k = 0: to none)
Series(n, a, b, k, h) ==
    [i \in 1..n |-> a + b * (i - 1) + (IF i = k THEN h ELSE 0)]

\* requested taus 1/q, 2/q, ..., top/q
TauGrid(q, top) == [k \in 1..top |-> FlDiv(k, q)]

\* requested taus top/q, ..., 1/q, 0, -1/q
TauGridDown(q, top) ==
    [k \in 1..top + 2 |->
        IF k <= top THEN FlDiv(top + 1 - k, q)
        ELSE IF k = top + 1 THEN FlZero ELSE FlNeg(FlDiv(1, q))]

DataSet ==
    {Series(n, a, b, 0, 0) : n \in 1..MaxN, a \in 0..1, b \in 0..1}
    \cup UNION {{Series(n, 0, 0, k, 1) : k \in 1..n} : n \in 1..MaxN}

TauLists == {TauGrid(q, top) : q \in 1..MaxTauDen, top \in 0..MaxTauNum}

SelTauLists ==
    {TauGrid(q, top) : q \in 1..MaxTauDen, top \in 0..MaxSelTauNum}
    \cup {TauGridDown(q, top) : q \in 1..MaxTauDen, top \in 0..MaxSelTauNum}

HatSeries == UNION {{Series(n, 0, 0, 2, h) : h \in 0..1} : n \in 1..MaxHatN}

HatTauLists == {TauGrid(1, top) : top \in 0..MaxHatTau}

(***************************************************************************)
(* State: the arguments of a call and what the last call left behind.      *)
(***************************************************************************)
VARIABLES
    data,    \* the phase series given to an estimator or to tau_m
    legs,    \* the three series (ab, bc, ca) given to three_cornered_hat_phase
    rate,    \* the sample rate
    taus,    \* the requested taus (binary64 values)
    fn,      \* the function called last, "none" before the first call
    res,     \* what the last estimator or tau_m call left behind
    again,   \* tau_m applied to the taus2 it returned
    hat      \* what the last three_cornered_hat_phase call left behind

vars == <<data, legs, rate, taus, fn, res, again, hat>>

Idle == [err |-> "none", sel |-> [m |-> <<>>, taus2 |-> <<>>], raw |-> <<>>,
         ext |-> <<>>, out |-> NoOut]

NoSel == [err |-> "none", m |-> <<>>, taus2 |-> <<>>]

Fresh == fn = "none" /\ res = Idle /\ again = NoSel /\ hat = NoHat

Init ==
    /\ data \in DataSet
    /\ legs = <<>>
    /\ rate \in 0..MaxRate
    /\ taus \in TauLists
    /\ Fresh

InitTau ==
    /\ data \in {Series(n, 0, 1, 0, 0) : n \in 1..MaxSelN}
    /\ legs = <<>>
    /\ rate \in 0..MaxSelRate
    /\ taus \in SelTauLists
    /\ Fresh

InitHat ==
    /\ data = <<>>
    /\ legs \in HatSeries \X HatSeries \X HatSeries
    /\ rate \in 0..MaxHatRate
    /\ taus \in HatTauLists
    /\ Fresh

\* a call on the arguments drawn: every call is independent of the others, so a
\* behaviour holds one
Call(name, r) ==
    /\ fn = "none"
    /\ fn' = name
    /\ res' = r
    /\ again' = NoSel
    /\ hat' = NoHat
    /\ UNCHANGED <<data, legs, rate, taus>>

Call_adev_phase == Call("adev_phase", adev_phase(data, rate, taus))

Call_oadev_phase == Call("oadev_phase", oadev_phase(data, rate, taus))

Call_mdev_phase == Call("mdev_phase", mdev_phase(data, rate, taus))

Call_tdev_phase == Call("tdev_phase", tdev_phase(data, rate, taus))

Call_hdev_phase == Call("hdev_phase", hdev_phase(data, rate, taus))

Call_ohdev_phase == Call("ohdev_phase", ohdev_phase(data, rate, taus))

Call_totdev_phase == Call("totdev_phase", totdev_phase(data, rate, taus))

Call_tierms_phase == Call("tierms_phase", tierms_phase(data, rate, taus))

Call_mtie_phase ==
    \E strict \in BOOLEAN : Call("mtie_phase", mtie_phase(data, rate, taus, strict))

\* tau_m called on its own
Call_tau_m ==
    LET sel == tau_m(data, rate, taus)
    IN  Call("tau_m", [Idle EXCEPT !.err = sel.err,
                                   !.sel = [m |-> sel.m, taus2 |-> sel.taus2]])

\* tau_m called again with the taus2 it returned as the tau list
Call_tau_m_again ==
    /\ fn = "tau_m"
    /\ res.err = "none"
    /\ fn' = "tau_m_again"
    /\ again' = tau_m(data, rate, res.sel.taus2)
    /\ UNCHANGED <<data, legs, rate, taus, res, hat>>

Call_three_cornered_hat_phase ==
    \E function \in Estimators, strict \in BOOLEAN :
        /\ fn = "none"
        /\ fn' = function
        /\ hat' = three_cornered_hat_phase(legs[1], legs[2], legs[3], rate, taus,
                                           function, strict)
        /\ UNCHANGED <<data, legs, rate, taus, res, again>>

Next ==
    \/ Call_adev_phase
    \/ Call_oadev_phase
    \/ Call_mdev_phase
    \/ Call_tdev_phase
    \/ Call_hdev_phase
    \/ Call_ohdev_phase
    \/ Call_totdev_phase
    \/ Call_tierms_phase
    \/ Call_mtie_phase

NextTau == Call_tau_m \/ Call_tau_m_again

NextHat == Call_three_cornered_hat_phase

Spec == Init /\ [][Next]_vars

SpecTau == InitTau /\ [][NextTau]_vars

SpecHat == InitHat /\ [][NextHat]_vars

(***************************************************************************)
(* Properties                                                              *)
(***************************************************************************)
Called == fn \in Estimators

Completed == Called /\ res.err = "none"

SameLength(o) ==
    Len(o.taus) = Len(o.devs) /\ Len(o.devs) = Len(o.errs) /\ Len(o.errs) = Len(o.ns)

\* C1: whatever estimator was called, every entry of the returned n array is
\* greater than 1 and the four returned arrays (taus, devs, errors, ns) have
\* the same length.
FilteredOutput ==
    Called => /\ \A i \in 1..Len(res.out.ns) : res.out.ns[i] > 1
              /\ SameLength(res.out)

\* a call that computed an entry with n = 1, dropped it, and returned others
FilteredOutputSeen ==
    /\ fn = "mdev_phase"
    /\ \E i \in 1..Len(res.raw) : res.raw[i].n = 1
    /\ Len(res.out.ns) >= 1
    /\ Len(res.out.ns) < Len(res.raw)

\* C2: with a nonzero rate tau_m raises nothing and returns m values that are
\* positive, strictly increasing, each below len(data), with taus2[i] the
\* quotient m[i] / rate; requested taus outside (0, len(data)/rate) leave no m.
TauSelectionContract ==
    fn = "tau_m" /\ rate # 0 =>
        /\ res.err = "none"
        /\ Len(res.sel.taus2) = Len(res.sel.m)
        /\ \A i \in 1..Len(res.sel.m) :
              /\ res.sel.m[i] > 0
              /\ res.sel.m[i] < Len(data)
              /\ res.sel.taus2[i] = FlDiv(res.sel.m[i], rate)
              /\ i > 1 => res.sel.m[i - 1] < res.sel.m[i]

\* C3: with a nonzero rate no estimator call ends in an error, and a call in
\* which no tau is usable (none selected, or every n <= 1) returns four empty
\* arrays.
NoErrorWithRate ==
    Called /\ rate # 0 =>
        /\ res.err = "none"
        /\ (\A i \in 1..Len(res.raw) : res.raw[i].n <= 1) => res.out = NoOut

HatCalled == hat.legs = 3

HatLengths == {Len(hat.outs[k].devs) : k \in 1..3}

\* C4: once the three estimator calls have returned, the call ends in an
\* AssertionError, returning nothing, whenever their outputs differ in length,
\* and when it completes the three outputs carry the same taus.
HatNeedsEqualLegs ==
    HatCalled =>
        /\ Cardinality(HatLengths) > 1 =>
              hat.err = "AssertionError" /\ hat.tau = <<>> /\ hat.dev_a = <<>>
        /\ hat.err = "none" =>
              /\ hat.outs[1].taus = hat.outs[2].taus
              /\ hat.outs[2].taus = hat.outs[3].taus
              /\ hat.tau = hat.outs[1].taus

\* a call stopped by the assertion: the first two legs agree, the third differs
HatAssertionSeen ==
    /\ HatCalled
    /\ hat.err = "AssertionError"
    /\ \E k \in 1..3 : Len(hat.outs[k].devs) >= 1
    /\ Len(hat.outs[1].devs) = Len(hat.outs[2].devs)

\* 0.5 * (var_ab + var_ca - var_bc) at index i, from the three returned arrays
HatVarAt(i) ==
    RatScale(RatSub(RatAdd(Square(hat.outs[1].devs[i]), Square(hat.outs[3].devs[i])),
                    Square(hat.outs[2].devs[i])), 1, 2)

\* C5: once the three outputs have passed the assertion the call completes, and
\* at every index var_a is 0.5 * (var_ab + var_ca - var_bc), the deviation is 0
\* where var_a < 0 and the square root elsewhere, never negative nor NaN.
HatClamped ==
    HatCalled /\ Cardinality(HatLengths) = 1 =>
        /\ hat.err = "none"
        /\ Len(hat.dev_a) = Len(hat.tau)
        /\ Len(hat.var_a) = Len(hat.tau)
        /\ \A i \in 1..Len(hat.dev_a) :
              /\ hat.var_a[i] = HatVarAt(i)
              /\ ~hat.dev_a[i].nan
              /\ hat.dev_a[i].num >= 0
              /\ hat.dev_a[i] = IF hat.var_a[i].num < 0 THEN Rat(0, 1)
                                ELSE Sqrt(hat.var_a[i])

\* a completed call with a negative var_a
HatClampSeen ==
    /\ HatCalled
    /\ hat.err = "none"
    /\ \E i \in 1..Len(hat.dev_a) :
          ~hat.var_a[i].nan /\ hat.var_a[i].num < 0 /\ hat.dev_a[i] = Rat(0, 1)

TwoSliceEstimators == {"adev_phase", "oadev_phase", "hdev_phase", "ohdev_phase"}

\* C6: for adev, oadev, hdev and ohdev the sample count n does not increase with
\* m, both as computed per m (with 0 replaced by 1) and as returned.
MonotoneN ==
    fn \in TwoSliceEstimators /\ res.err = "none" =>
        /\ \A i, j \in 1..Len(res.raw) :
              i < j => res.raw[i].m < res.raw[j].m /\ res.raw[i].n >= res.raw[j].n
        /\ \A i, j \in 1..Len(res.out.ns) : i < j => res.out.ns[i] >= res.out.ns[j]

\* a call with a falling n, one m whose slices were empty, and two values kept
MonotoneNSeen ==
    /\ fn = "adev_phase"
    /\ \E i, j \in 1..Len(res.raw) :
          /\ i < j
          /\ res.raw[i].n > res.raw[j].n
          /\ res.raw[j].terms = 0
          /\ res.raw[j].n = 1
    /\ Len(res.out.ns) >= 2
    /\ res.out.ns[1] > res.out.ns[2]

\* C7: tau_m called again on the taus2 it returned gives the same m and taus2.
TauSelectionFixedPoint ==
    fn = "tau_m_again" =>
        /\ again.err = "none"
        /\ again.m = res.sel.m
        /\ again.taus2 = res.sel.taus2

IsLinear(x) == \A i \in 2..Len(x) : x[i] - x[1] = (i - 1) * (x[Min2(2, Len(x))] - x[1])

DifferenceEstimators == {"adev_phase", "oadev_phase", "hdev_phase"}

Ramp10 == Series(10, 0, 1, 0, 0)

\* C8: on a linear series a + b*i adev, oadev and hdev accumulate only zero
\* differences and return deviation 0 at every surviving tau; the series 0..9
\* with rate 1 and taus 1, 2, 3 selects m = 1, 2, 3.
LinearPhaseIsQuiet ==
    fn \in DifferenceEstimators /\ res.err = "none" /\ IsLinear(data) =>
        /\ \A i \in 1..Len(res.raw) : res.raw[i].s = 0
        /\ \A i \in 1..Len(res.out.devs) : res.out.devs[i] = Rat(0, 1)
        /\ data = Ramp10 /\ rate = 1 /\ taus = TauGrid(1, 3) => res.sel.m = <<1, 2, 3>>

\* adev on 0..9 with rate 1 and taus 1, 2, 3: three values survive
LinearPhaseSeen ==
    /\ fn = "adev_phase"
    /\ data = Ramp10 /\ rate = 1 /\ taus = TauGrid(1, 3)
    /\ res.sel.m = <<1, 2, 3>>
    /\ Len(res.out.devs) = 3
    /\ \A i \in 1..3 : res.raw[i].terms >= 1

\* sum over i = j..j+m-1 of x[i+2m] - 2x[i+m] + x[i], indices from 0
WindowSum(x, m, j) ==
    SumSeq([k \in 1..m |-> x[j + k + 2 * m] - 2 * x[j + k + m] + x[j + k]])

\* sum over j = 0..N-3m of the squared window sums
DoubleSum(x, m) == SumSq([k \in 1..Len(x) - 3 * m + 1 |-> WindowSum(x, m, k - 1)])

\* C9: for a selected m with 3m <= N mdev_phase accumulates the double sum of
\* squared window sums and reports n = N - 3m + 1; for 3m > N the entry has
\* n = 1 and its tau is not returned.
ModifiedSumIsDoubleSum ==
    fn = "mdev_phase" /\ res.err = "none" =>
        \A i \in 1..Len(res.raw) :
            LET m == res.raw[i].m
                N == Len(data)
            IN  /\ m = res.sel.m[i]
                /\ 3 * m <= N => /\ res.raw[i].s = DoubleSum(data, m)
                                 /\ res.raw[i].n = N - 3 * m + 1
                /\ 3 * m > N => /\ res.raw[i].n = 1
                                /\ \A k \in 1..Len(res.out.taus) :
                                      res.out.taus[k] # res.sel.taus2[i]

\* a call with a nonzero sum over several windows of more than one sample, and
\* with an m too large for the series
ModifiedSumSeen ==
    /\ fn = "mdev_phase"
    /\ res.err = "none"
    /\ \E i \in 1..Len(res.raw) :
          /\ res.raw[i].m >= 2
          /\ res.raw[i].n >= 3
          /\ res.raw[i].s > 0
          /\ WindowSum(data, res.raw[i].m, 0) # 0
    /\ \E i \in 1..Len(res.raw) : 3 * res.raw[i].m > Len(data)

\* the extended series as the flanks and the middle are described, indices from 0
ReflectedLayout(x, d) ==
    LET N == Len(d)
    IN  /\ Len(x) = 3 * N - 4
        /\ \A p \in N - 2..2 * N - 3 : x[p + 1] = d[p - (N - 2) + 1]
        /\ \A k \in 1..N - 2 :
              /\ x[N - 2 - k + 1] = 2 * d[1] - d[k + 1]
              /\ x[2 * N - 3 + k + 1] = 2 * d[N] - d[N - 1 - k + 1]

\* sum over the interior samples c of (x[c-m] - 2x[c] + x[c+m])^2, c the
\* position of data[1]..data[N-2] in the extended series, indices from 0
CentredSum(x, N, m) ==
    SumSq([k \in 1..N - 2 |->
              x[N - 2 + k - m + 1] - 2 * x[N - 2 + k + 1] + x[N - 2 + k + m + 1]])

\* the sum of an entry reads the extended series within its bounds
TotdevInRange(e, N) ==
    /\ e.m >= 1
    /\ e.m < N
    /\ e.first >= 0
    /\ e.first = N - 1 - e.m
    /\ N - 1 + (N - 3) + e.m <= 3 * N - 5

\* C10: for N >= 3 totdev_phase extends the series to 3N - 4 samples, the data
\* in the middle and its reflections about the first and last sample on the
\* flanks, and for every selected m sums exactly N - 2 squared second
\* differences centred on the interior samples, reading no index outside the
\* extended series and slicing from no negative start.
TotdevReflection ==
    fn = "totdev_phase" /\ res.err = "none" /\ Len(data) >= 3 =>
        /\ ReflectedLayout(res.ext, data)
        /\ \A i \in 1..Len(res.raw) :
              /\ TotdevInRange(res.raw[i], Len(data))
              /\ res.raw[i].terms = Len(data) - 2
              /\ res.raw[i].s = CentredSum(res.ext, Len(data), res.raw[i].m)

\* the same for the selected m that are below the length of the series
TotdevReflectionBelowN ==
    fn = "totdev_phase" /\ res.err = "none" /\ Len(data) >= 3 =>
        /\ ReflectedLayout(res.ext, data)
        /\ \A i \in 1..Len(res.raw) :
              res.raw[i].m < Len(data) =>
                  /\ TotdevInRange(res.raw[i], Len(data))
                  /\ res.raw[i].terms = Len(data) - 2
                  /\ res.raw[i].s = CentredSum(res.ext, Len(data), res.raw[i].m)

====
